---------------------------- MODULE Spec2Model ----------------------------
(***************************************************************************)
(* A model of the retrieval-augmented question answering pipeline of       *)
(* rag_project: the chunker and the ingestion job (ingestion/ingest.py),   *)
(* the retriever (retrieval/search.py), the answer composer                *)
(* (rag_pipeline.py) and the /ask endpoint (app.py).                       *)
(*                                                                         *)
(* A Python str is a sequence of one-character strings.  The template      *)
(* words "Context:", "Question:" and "Answer:" are single symbols "C",     *)
(* "Q" and "A": no proper part of one of these words takes part in a       *)
(* match of the code's literals, so a str over the symbols below behaves   *)
(* as the str it abbreviates.  The fixed phrases of the answers are        *)
(* single symbols too.                                                     *)
(***************************************************************************)
EXTENDS Integers, Sequences, FiniteSets, TLC

VARIABLES
    text, chunks, pcChunk,                 \* split_into_chunks: input, output, position
    prompt, llmOut, pcLLM,                 \* placeholder_llm: input, outcome, position
    cChunks, cQuestion, cAnswer, pcCompose,\* build_context/build_prompt/placeholder_llm
    metadata,                              \* data/chunk_metadata.json
    index,                                 \* keys held by the remote index rag_index
    run,                                   \* the last ingestion run
    call                                   \* the last GET /ask call

vars == <<text, chunks, pcChunk, prompt, llmOut, pcLLM,
          cChunks, cQuestion, cAnswer, pcCompose, metadata, index, run, call>>

chunkVars   == <<text, chunks, pcChunk>>
llmVars     == <<prompt, llmOut, pcLLM>>
composeVars == <<cChunks, cQuestion, cAnswer, pcCompose>>
storeVars   == <<metadata, index, run>>

---------------------------------------------------------------------------
(* Bounds of the model *)

MaxTextLen == 7
MaxPromptLen == 6
MaxChunks == 2
MaxQuestionLen == 3
MaxHits == 2

SeqsUpTo(S, n) == UNION {[1..k -> S] : k \in 0..n}

---------------------------------------------------------------------------
(* Python str operations *)

Whitespace == {" ", "\n"}

IsSpace(c) == c \in Whitespace

Min(S) == CHOOSE x \in S : \A y \in S : x <= y

RECURSIVE LStrip(_)
LStrip(s) ==
    IF s # <<>> /\ IsSpace(Head(s)) THEN LStrip(Tail(s)) ELSE s

RECURSIVE RStrip(_)
RStrip(s) ==
    IF s # <<>> /\ IsSpace(s[Len(s)]) THEN RStrip(SubSeq(s, 1, Len(s) - 1)) ELSE s

\* str.strip()
Strip(s) == RStrip(LStrip(s))

MatchAt(s, pat, i) ==
    /\ i + Len(pat) - 1 <= Len(s)
    /\ \A k \in 1..Len(pat) : s[i + k - 1] = pat[k]

\* str.find(pat) + 1: the place of the first occurrence, 0 when there is none
Find(s, pat) ==
    LET occ == {i \in 1..Len(s) : MatchAt(s, pat, i)}
    IN  IF occ = {} THEN 0 ELSE Min(occ)

\* pat in s
Contains(s, pat) == Find(s, pat) # 0

\* s.split(pat, 1)
SplitOnce(s, pat) ==
    LET i == Find(s, pat)
    IN  IF i = 0 THEN <<s>>
        ELSE <<SubSeq(s, 1, i - 1), SubSeq(s, i + Len(pat), Len(s))>>

\* s.replace(pat, "", 1)
RemoveFirst(s, pat) ==
    LET i == Find(s, pat)
    IN  IF i = 0 THEN s
        ELSE SubSeq(s, 1, i - 1) \o SubSeq(s, i + Len(pat), Len(s))

\* s.endswith(suffix)
EndsWith(s, suffix) ==
    /\ Len(suffix) <= Len(s)
    /\ SubSeq(s, Len(s) - Len(suffix) + 1, Len(s)) = suffix

\* sep.join(parts)
RECURSIVE Join(_, _)
Join(parts, sep) ==
    IF parts = <<>> THEN <<>>
    ELSE IF Len(parts) = 1 THEN parts[1]
    ELSE parts[1] \o sep \o Join(Tail(parts), sep)

\* A call either returns a value or raises an exception.
Return(v) == [exc |-> "", value |-> v]
\* (the value of a raised outcome is str(e), the exception's message)
Raise(e, msg) == [exc |-> e, value |-> msg]

---------------------------------------------------------------------------
(* ingestion/ingest.py: split_into_chunks *)

Terminators == {".", "!", "?"}

ChunkSize == 3

RECURSIVE SkipSpaces(_, _)
SkipSpaces(s, i) ==
    IF i <= Len(s) /\ IsSpace(s[i]) THEN SkipSpaces(s, i + 1) ELSE i

\* re.compile(r"(?<=[.!?])\s+").split(text): a separator is a maximal run of
\* whitespace that directly follows a terminator.
RECURSIVE SentenceEndSplit(_, _, _, _)
SentenceEndSplit(s, i, cur, acc) ==
    IF i > Len(s) THEN Append(acc, cur)
    ELSE IF IsSpace(s[i]) /\ i > 1 /\ s[i - 1] \in Terminators
         THEN SentenceEndSplit(s, SkipSpaces(s, i), <<>>, Append(acc, cur))
         ELSE SentenceEndSplit(s, i + 1, Append(cur, s[i]), acc)

\* [s.strip() for s in pieces if s.strip()]
RECURSIVE StripNonEmpty(_)
StripNonEmpty(pieces) ==
    IF pieces = <<>> THEN <<>>
    ELSE IF Strip(Head(pieces)) = <<>> THEN StripNonEmpty(Tail(pieces))
    ELSE <<Strip(Head(pieces))>> \o StripNonEmpty(Tail(pieces))

Sentences(t) == StripNonEmpty(SentenceEndSplit(t, 1, <<>>, <<>>))

\* sentences[i : i + 3] with i counted from 0
Slice(s, i, n) ==
    SubSeq(s, i + 1, IF i + n <= Len(s) THEN i + n ELSE Len(s))

RECURSIVE ChunkLoop(_, _, _, _)
ChunkLoop(sentences, i, step, acc) ==
    IF i < Len(sentences)
    THEN ChunkLoop(sentences, i + step, step,
                   Append(acc, Join(Slice(sentences, i, ChunkSize), <<" ">>)))
    ELSE acc

split_into_chunks_overlap(t) == ChunkLoop(Sentences(t), 0, ChunkSize - 1, <<>>)

split_into_chunks(t) == ChunkLoop(Sentences(t), 0, ChunkSize, <<>>)

TextAlphabet == {"a", ".", " ", "\n"}

Texts == SeqsUpTo(TextAlphabet, MaxTextLen)

Split ==
    /\ pcChunk = "start"
    /\ chunks' = split_into_chunks(text)
    /\ pcChunk' = "done"
    /\ UNCHANGED <<text, llmVars, composeVars, storeVars, call>>

---------------------------------------------------------------------------
(* rag_pipeline.py: build_context, build_prompt, placeholder_llm *)

ContextMarker == <<"C", "\n">>

QuestionMarker == <<"\n", "\n", "Q", "\n">>

AnswerMarker == <<"\n", "\n", "A">>

Fallback == <<"I could not generate an answer from the given prompt.">>

NoContext == <<"No relevant context was found for your question.">>

BasedOn == "Based on the context: "

\* the f-string of placeholder_llm
AnswerText(first_sentence, question_block) ==
    <<BasedOn>> \o first_sentence \o <<" In answer to \"">> \o question_block
        \o <<"\": The relevant information is in the context above.">>

build_context(cs) == Strip(Join(cs, <<"\n", "\n">>))

build_prompt(context, question) ==
    ContextMarker \o context \o QuestionMarker \o question \o AnswerMarker

\* context_block.split(". ")[0].strip(), with a period appended when absent
FirstSentence(context_block) ==
    LET first == Strip(SplitOnce(context_block, <<".", " ">>)[1])
    IN  IF EndsWith(first, <<".">>) THEN first ELSE first \o <<".">>

placeholder_llm_either(p) ==
    IF Contains(p, ContextMarker) \/ Contains(p, QuestionMarker)
    THEN LET parts == SplitOnce(p, QuestionMarker)
         IN  IF Len(parts) < 2 THEN Raise("IndexError", <<"list index out of range">>)
             ELSE Return(AnswerText(
                      FirstSentence(Strip(RemoveFirst(parts[1], ContextMarker))),
                      Strip(RemoveFirst(parts[2], AnswerMarker))))
    ELSE Return(Fallback)

\* the question cut at the first Answer marker instead of losing that marker
placeholder_llm_cut(p) ==
    IF Contains(p, ContextMarker) /\ Contains(p, QuestionMarker)
    THEN LET parts == SplitOnce(p, QuestionMarker)
         IN  IF Len(parts) < 2 THEN Raise("IndexError", <<"list index out of range">>)
             ELSE Return(AnswerText(
                      FirstSentence(Strip(RemoveFirst(parts[1], ContextMarker))),
                      Strip(SplitOnce(parts[2], <<"A">>)[1])))
    ELSE Return(Fallback)

placeholder_llm(p) ==
    IF Contains(p, ContextMarker) /\ Contains(p, QuestionMarker)
    THEN LET parts == SplitOnce(p, QuestionMarker)
         IN  IF Len(parts) < 2 THEN Raise("IndexError", <<"list index out of range">>)
             ELSE Return(AnswerText(
                      FirstSentence(Strip(RemoveFirst(parts[1], ContextMarker))),
                      Strip(RemoveFirst(parts[2], AnswerMarker))))
    ELSE Return(Fallback)

PromptAlphabet == {"C", "Q", "A", "\n", "x"}

Prompts == SeqsUpTo(PromptAlphabet, MaxPromptLen)

Generate ==
    /\ pcLLM = "start"
    /\ llmOut' = placeholder_llm(prompt)
    /\ pcLLM' = "done"
    /\ UNCHANGED <<prompt, chunkVars, composeVars, storeVars, call>>

---------------------------------------------------------------------------
(* rag_pipeline.py: run_rag, from the retrieved chunks on *)

\* What run_rag does with the outcome of retrieve_chunks: its own outcome
\* and the prompts it handed to placeholder_llm.
run_rag_always_generate(retrieved, question) ==
    IF retrieved.exc # "" THEN [out |-> retrieved, prompts |-> <<>>]
    ELSE LET p == build_prompt(build_context(retrieved.value), question)
         IN  [out |-> placeholder_llm(p), prompts |-> <<p>>]

run_rag_after(retrieved, question) ==
    IF retrieved.exc # "" THEN [out |-> retrieved, prompts |-> <<>>]
    ELSE IF retrieved.value = <<>>
    THEN [out |-> Return(NoContext), prompts |-> <<>>]
    ELSE LET p == build_prompt(build_context(retrieved.value), question)
         IN  [out |-> placeholder_llm(p), prompts |-> <<p>>]

SampleChunks ==
    { <<"x">>, <<"Q">>, <<" ">>, <<"x", ".", " ", "x">>,
      <<"C", "\n", "x", ".">>, <<"x", "\n", "\n", "Q", "\n", "x">> }

QuestionAlphabet == {"x", "A", "\n"}

Questions == SeqsUpTo(QuestionAlphabet, MaxQuestionLen)

ChunkLists == SeqsUpTo(SampleChunks, MaxChunks) \ {<<>>}

Compose ==
    /\ pcCompose = "start"
    /\ cAnswer' = run_rag_after(Return(cChunks), cQuestion).out
    /\ pcCompose' = "done"
    /\ UNCHANGED <<cChunks, cQuestion, chunkVars, llmVars, storeVars, call>>

---------------------------------------------------------------------------
(* The metadata file and chunk ids *)

Digit == <<"0", "1", "2", "3", "4", "5", "6", "7", "8", "9">>

\* str(i) of an int i >= 0
RECURSIVE Decimal(_)
Decimal(i) ==
    IF i < 10 THEN <<Digit[i + 1]>>
    ELSE Decimal(i \div 10) \o <<Digit[(i % 10) + 1]>>

\* f"chunk_{i}"
ChunkId(i) == <<"chunk_">> \o Decimal(i)

\* {"text": chunk}
TextRecord(t) == [fields |-> {"text"}, text |-> t]

\* a record of the file that has no "text"
BareRecord == [fields |-> {}, text |-> <<>>]

NoFile == [exists |-> FALSE, entries |-> <<>>]

File(entries) == [exists |-> TRUE, entries |-> entries]

---------------------------------------------------------------------------
(* retrieval/search.py: load_metadata, retrieve_chunks *)

MsgpackType == <<"application/msgpack">>

\* f"[No text for id: {chunk_id}]"
Sentinel(chunk_id) == <<"[No text for id: ">> \o chunk_id \o <<"]">>

load_metadata(md) ==
    IF ~md.exists THEN Raise("FileNotFoundError", <<"Metadata not found: chunk_metadata.json">>)
    ELSE Return(md.entries)

\* A decoded payload: a list, a dict (with the keys it holds) or another value.
\* A value stored under a key is a list of items or something that is no list.
ListValue(items) == [iterable |-> TRUE, items |-> items]

NoneValue == [iterable |-> FALSE, items |-> <<>>]

ListPayload(items) ==
    [type |-> "list", keys |-> {}, results |-> ListValue(items), dense |-> NoneValue]

DictPayload(keys, results, dense) ==
    [type |-> "dict", keys |-> keys, results |-> results, dense |-> dense]

OtherPayload ==
    [type |-> "other", keys |-> {}, results |-> NoneValue, dense |-> NoneValue]

\* lines 80-85: the results of a decoded payload
ResultsOf(payload) ==
    IF payload.type = "list" THEN payload.results
    ELSE IF payload.type = "dict"
    THEN IF "results" \in payload.keys THEN payload.results
         ELSE IF "dense" \in payload.keys THEN payload.dense
         ELSE ListValue(<<>>)
    ELSE ListValue(<<>>)

\* An item of the results: a list/tuple with its elements, or another value.
ListItem(elems) == [list |-> TRUE, elems |-> elems]

ScalarItem == [list |-> FALSE, elems |-> <<>>]

\* the id read at index 0, where the comment of line 93 places it
RECURSIVE MapResultsFirst(_, _, _)
MapResultsFirst(items, entries, acc) ==
    IF items = <<>> THEN Return(acc)
    ELSE LET item == Head(items)
         IN  IF ~item.list \/ Len(item.elems) = 0
             THEN MapResultsFirst(Tail(items), entries, acc)
             ELSE LET chunk_id == item.elems[1]
                  IN  IF chunk_id \in DOMAIN entries /\ "text" \in entries[chunk_id].fields
                      THEN MapResultsFirst(Tail(items), entries,
                                           Append(acc, entries[chunk_id].text))
                      ELSE MapResultsFirst(Tail(items), entries,
                                           Append(acc, Sentinel(chunk_id)))

\* lines 91-104: the loop over the results
RECURSIVE MapResults(_, _, _)
MapResults(items, entries, acc) ==
    IF items = <<>> THEN Return(acc)
    ELSE LET item == Head(items)
         IN  IF ~item.list \/ Len(item.elems) = 0
             THEN MapResults(Tail(items), entries, acc)
             ELSE IF Len(item.elems) < 2
             THEN Raise("IndexError", <<"list index out of range">>)
             ELSE LET chunk_id == item.elems[2]
                  IN  IF chunk_id \in DOMAIN entries /\ "text" \in entries[chunk_id].fields
                      THEN MapResults(Tail(items), entries,
                                      Append(acc, entries[chunk_id].text))
                      ELSE MapResults(Tail(items), entries,
                                      Append(acc, Sentinel(chunk_id)))

\* What a call of retrieve_chunks did: its outcome, whether it called
\* msgpack.unpackb, whether it called load_metadata, and what it printed.
Did(out, decoded, loaded, printed) ==
    [out |-> out, decoded |-> decoded, loaded |-> loaded, printed |-> printed]

\* lines 78-104, from msgpack.unpackb on
DecodeAndMap(r, md) ==
    IF ~r.body.decodable
    THEN Did(Raise("UnpackException", <<"unpack failed">>), TRUE, FALSE, <<>>)
    ELSE LET results == ResultsOf(r.body.payload)
             loaded == load_metadata(md)
         IN  IF loaded.exc # "" THEN Did(loaded, TRUE, TRUE, <<>>)
             ELSE IF ~results.iterable
             THEN Did(Raise("TypeError", <<"object is not iterable">>), TRUE, TRUE, <<>>)
             ELSE Did(MapResults(results.items, loaded.value, <<>>), TRUE, TRUE, <<>>)

\* the metadata loaded before the content type is looked at
retrieve_chunks_load_first(r, md) ==
    IF r.model = "fail"
    THEN Did(Raise("OSError", <<"cannot load model">>), FALSE, FALSE, <<>>)
    ELSE IF r.transport = "fail"
    THEN Did(Raise("ConnectionError", <<"connection refused">>), FALSE, FALSE, <<>>)
    ELSE IF r.status # 200
    THEN Did(Raise("RuntimeError", <<"Search failed: ">> \o r.body.text), FALSE, FALSE, <<>>)
    ELSE IF load_metadata(md).exc # ""
    THEN Did(load_metadata(md), FALSE, TRUE, <<>>)
    ELSE IF ~Contains(r.ctype, MsgpackType)
    THEN Did(Return(<<>>), FALSE, TRUE,
             <<"DEBUG: Non-msgpack response from Endee">> \o r.body.text)
    ELSE DecodeAndMap(r, md)

\* msgpack.unpackb called before the content type is looked at
retrieve_chunks_decode_first(r, md) ==
    IF r.model = "fail"
    THEN Did(Raise("OSError", <<"cannot load model">>), FALSE, FALSE, <<>>)
    ELSE IF r.transport = "fail"
    THEN Did(Raise("ConnectionError", <<"connection refused">>), FALSE, FALSE, <<>>)
    ELSE IF r.status # 200
    THEN Did(Raise("RuntimeError", <<"Search failed: ">> \o r.body.text), FALSE, FALSE, <<>>)
    ELSE IF ~r.body.decodable
    THEN Did(Raise("UnpackException", <<"unpack failed">>), TRUE, FALSE, <<>>)
    ELSE IF ~Contains(r.ctype, MsgpackType)
    THEN Did(Return(<<>>), TRUE, FALSE,
             <<"DEBUG: Non-msgpack response from Endee">> \o r.body.text)
    ELSE DecodeAndMap(r, md)

retrieve_chunks(r, md) ==
    IF r.model = "fail"
    THEN Did(Raise("OSError", <<"cannot load model">>), FALSE, FALSE, <<>>)
    ELSE IF r.transport = "fail"
    THEN Did(Raise("ConnectionError", <<"connection refused">>), FALSE, FALSE, <<>>)
    ELSE IF r.status # 200
    THEN Did(Raise("RuntimeError", <<"Search failed: ">> \o r.body.text), FALSE, FALSE, <<>>)
    ELSE IF ~Contains(r.ctype, MsgpackType)
    THEN Did(Return(<<>>), FALSE, FALSE,
             <<"DEBUG: Non-msgpack response from Endee">> \o r.body.text)
    ELSE DecodeAndMap(r, md)

---------------------------------------------------------------------------
(* rag_pipeline.py: run_rag; app.py: ask *)

\* run_rag: what retrieve_chunks did, and what run_rag made of it
run_rag(r, md) ==
    LET retrieved == retrieve_chunks(r, md)
        rest == run_rag_after(retrieved.out, r.question)
    IN  [out |-> rest.out, prompts |-> rest.prompts, retrieved |-> retrieved]

\* The classes `except Exception` catches, among those the pipeline raises.
ExceptionClasses ==
    {"OSError", "ConnectionError", "RuntimeError", "FileNotFoundError",
     "UnpackException", "TypeError", "IndexError"}

Note == <<"Error occurred inside RAG pipeline (retrieval / Endee search).">>

\* The response of GET /ask: a JSON object with the keys it carries, or the
\* exception that left the handler.
Json(keys, question, answer, error, note) ==
    [raised |-> "", keys |-> keys, question |-> question, answer |-> answer,
     error |-> error, note |-> note]

Propagated(e) ==
    [raised |-> e, keys |-> {}, question |-> <<>>, answer |-> <<>>,
     error |-> <<>>, note |-> <<>>]

\* the handler with `except RuntimeError` in place of `except Exception`
ask_runtime_only(question, rag) ==
    IF rag.out.exc = ""
    THEN Json({"question", "answer"}, question, rag.out.value, <<>>, <<>>)
    ELSE IF rag.out.exc = "RuntimeError"
    THEN Json({"error", "note"}, <<>>, <<>>, rag.out.value, Note)
    ELSE Propagated(rag.out.exc)

\* ask, given what run_rag(question) did
ask(question, rag) ==
    IF rag.out.exc = ""
    THEN Json({"question", "answer"}, question, rag.out.value, <<>>, <<>>)
    ELSE IF rag.out.exc \in ExceptionClasses
    THEN Json({"error", "note"}, <<>>, <<>>, rag.out.value, Note)
    ELSE Propagated(rag.out.exc)

---------------------------------------------------------------------------
(* The environment of a query: the question, the embedding model, the     *)
(* remote index's answer to the search, and the metadata file.            *)

KnownIds == {ChunkId(0), ChunkId(1)}

HitIds == KnownIds \cup {ChunkId(7)}

Score == <<"0.9">>

Items ==
    {ListItem(<<Score, id>>) : id \in HitIds}
        \cup {ListItem(<<ChunkId(0)>>), ListItem(<<>>), ScalarItem}

ItemLists == SeqsUpTo(Items, MaxHits)

Payloads ==
    {ListPayload(l) : l \in ItemLists}
        \cup {DictPayload({"results"}, ListValue(l), NoneValue) : l \in ItemLists}
        \cup {DictPayload({"dense"}, NoneValue, ListValue(l)) : l \in ItemLists}
        \cup {DictPayload({"results"}, NoneValue, NoneValue),
              DictPayload({}, NoneValue, NoneValue),
              OtherPayload}

Garbage == [decodable |-> FALSE, payload |-> OtherPayload, text |-> <<"<html>">>]

Bodies ==
    {Garbage} \cup
    {[decodable |-> TRUE, payload |-> p, text |-> <<"bytes">>] : p \in Payloads}

ContentTypes ==
    {MsgpackType, <<"application/msgpack", "; charset=binary">>, <<"text/html">>, <<>>}

AskQuestions == {<<"x">>, <<" ", "x", "\n">>}

Requests ==
    [question : AskQuestions, model : {"ok"}, transport : {"ok"},
     status : {200, 500}, ctype : ContentTypes, body : Bodies]
    \cup
    [question : AskQuestions, model : {"ok", "fail"}, transport : {"fail"},
     status : {0}, ctype : {<<>>}, body : {Garbage}]
    \cup
    [question : AskQuestions, model : {"fail"}, transport : {"ok"},
     status : {0}, ctype : {<<>>}, body : {Garbage}]

Text0 == <<"x", ".", " ", "x">>

Text1 == <<"y", ".">>

MetadataFiles ==
    {NoFile, File(<<>>)}
        \cup {File([i \in {ChunkId(0)} |-> r]) : r \in {TextRecord(Text0), BareRecord}}
        \cup {File([i \in {ChunkId(1)} |-> TextRecord(Text1)])}
        \cup {File([i \in KnownIds |->
                       IF i = ChunkId(0) THEN r ELSE TextRecord(Text1)]) :
                 r \in {TextRecord(Text0), BareRecord}}

\* before the call: nothing retrieved, nothing answered
NoCall ==
    [pc |-> "idle",
     req |-> [question |-> <<>>, model |-> "ok", transport |-> "ok",
              status |-> 0, ctype |-> <<>>, body |-> Garbage],
     rag |-> [out |-> Return(<<>>), prompts |-> <<>>,
              retrieved |-> Did(Return(<<>>), FALSE, FALSE, <<>>)],
     resp |-> Propagated("")]

Ask ==
    /\ call.pc = "start"
    /\ call' = [pc |-> "done", req |-> call.req,
                rag |-> run_rag(call.req, metadata),
                resp |-> ask(call.req.question, run_rag(call.req, metadata))]
    /\ UNCHANGED <<chunkVars, llmVars, composeVars, storeVars>>

---------------------------------------------------------------------------
(* ingestion/ingest.py: main *)

\* lines 80-91: the ids of the vectors and the metadata of the chunks
VectorIds(cs) == [i \in 1..Len(cs) |-> ChunkId(i - 1)]

MetadataOf(cs) ==
    [id \in {ChunkId(i - 1) : i \in 1..Len(cs)} |->
        TextRecord(cs[CHOOSE i \in 1..Len(cs) : ChunkId(i - 1) = id])]

\* The remote index after a bulk insert of ids: every id is a key after a
\* success; after a failure none is, or only the first one, which the remote
\* had stored before it failed.
IndexInsert(idx, ids, insert, stored) ==
    IF insert = "200" THEN idx \cup {ids[i] : i \in 1..Len(ids)}
    ELSE IF stored /\ ids # <<>> THEN idx \cup {ids[1]}
    ELSE idx

\* What a run did: the chunks it made, whether it wrote the metadata file,
\* the ids it posted, what it printed last, and the exception that ended it.
Ran(doc, cs, wrote, posted, printed, raised) ==
    [doc |-> doc, chunks |-> cs, wrote |-> wrote, posted |-> posted,
     printed |-> printed, raised |-> raised]

After(md, idx, ran) == [metadata |-> md, index |-> idx, run |-> ran]

\* lines 70-117, once the document is known not to be blank
IngestText(doc, t, env, md, idx) ==
    LET cs == split_into_chunks(t)
        ids == VectorIds(cs)
    IN  IF env.model = "fail"
        THEN After(md, idx, Ran(doc, cs, FALSE, <<>>, "Loading model", "OSError"))
        ELSE IF env.insert = "transport"
        THEN After(File(MetadataOf(cs)), IndexInsert(idx, ids, env.insert, env.stored),
                   Ran(doc, cs, TRUE, ids, "Sending vectors", "ConnectionError"))
        ELSE IF env.insert = "200"
        THEN After(File(MetadataOf(cs)), IndexInsert(idx, ids, env.insert, env.stored),
                   Ran(doc, cs, TRUE, ids, "Success: Inserted", ""))
        ELSE After(File(MetadataOf(cs)), IndexInsert(idx, ids, env.insert, env.stored),
                   Ran(doc, cs, TRUE, ids, "Insert failed", ""))

\* main without the check of line 66
main_no_empty_check(doc, env, md, idx) ==
    IF ~doc.exists
    THEN After(md, idx, Ran(doc, <<>>, FALSE, <<>>, "Missing file", ""))
    ELSE IngestText(doc, Strip(doc.text), env, md, idx)

main(doc, env, md, idx) ==
    IF ~doc.exists
    THEN After(md, idx, Ran(doc, <<>>, FALSE, <<>>, "Missing file", ""))
    ELSE IF Strip(doc.text) = <<>>
    THEN After(md, idx, Ran(doc, <<>>, FALSE, <<>>, "sample_docs.txt is empty", ""))
    ELSE IngestText(doc, Strip(doc.text), env, md, idx)

MissingDoc == [exists |-> FALSE, text |-> <<>>]

Doc(t) == [exists |-> TRUE, text |-> t]

MaxDocLen == 2

DocAlphabet == {"a", ".", " "}

\* every short document, and longer ones of one and of two chunks
SampleDocs ==
    {MissingDoc}
        \cup {Doc(t) : t \in SeqsUpTo(DocAlphabet, MaxDocLen)}
        \cup { Doc(<<" ", "b", "!", " ", "b">>), Doc(<<"c", ".", " ", "d">>),
               Doc(<<"a", ".", " ", "b", "?", "\n", "c", ".", " ", "d", ".", " ">>) }

IngestEnvs ==
    [model : {"ok"}, insert : {"200"}, stored : {FALSE}]
    \cup [model : {"ok"}, insert : {"500", "transport"}, stored : BOOLEAN]
    \cup [model : {"fail"}, insert : {"200"}, stored : {FALSE}]

NoRun == Ran(MissingDoc, <<>>, FALSE, <<>>, "", "")

Ingest ==
    \E doc \in SampleDocs, env \in IngestEnvs :
        LET after == main(doc, env, metadata, index)
        IN  /\ metadata' = after.metadata
            /\ index' = after.index
            /\ run' = after.run
            /\ UNCHANGED <<chunkVars, llmVars, composeVars, call>>

---------------------------------------------------------------------------
(* Specifications *)

\* split_into_chunks applied to every text of Texts
InitChunk ==
    /\ text \in Texts /\ chunks = <<>> /\ pcChunk = "start"
    /\ prompt = <<>> /\ llmOut = Return(<<>>) /\ pcLLM = "idle"
    /\ cChunks = <<>> /\ cQuestion = <<>> /\ cAnswer = Return(<<>>) /\ pcCompose = "idle"
    /\ metadata = NoFile /\ index = {} /\ run = NoRun
    /\ call = NoCall

SpecChunk == InitChunk /\ [][Split]_vars

\* placeholder_llm applied to every prompt of Prompts
InitLLM ==
    /\ text = <<>> /\ chunks = <<>> /\ pcChunk = "idle"
    /\ prompt \in Prompts /\ llmOut = Return(<<>>) /\ pcLLM = "start"
    /\ cChunks = <<>> /\ cQuestion = <<>> /\ cAnswer = Return(<<>>) /\ pcCompose = "idle"
    /\ metadata = NoFile /\ index = {} /\ run = NoRun
    /\ call = NoCall

SpecLLM == InitLLM /\ [][Generate]_vars

\* the composition steps of run_rag applied to chunk lists and questions
InitCompose ==
    /\ text = <<>> /\ chunks = <<>> /\ pcChunk = "idle"
    /\ prompt = <<>> /\ llmOut = Return(<<>>) /\ pcLLM = "idle"
    /\ cChunks \in ChunkLists /\ cQuestion \in Questions
    /\ cAnswer = Return(<<>>) /\ pcCompose = "start"
    /\ metadata = NoFile /\ index = {} /\ run = NoRun
    /\ call = NoCall

SpecCompose == InitCompose /\ [][Compose]_vars

\* one GET /ask call in every environment
InitQuery ==
    /\ text = <<>> /\ chunks = <<>> /\ pcChunk = "idle"
    /\ prompt = <<>> /\ llmOut = Return(<<>>) /\ pcLLM = "idle"
    /\ cChunks = <<>> /\ cQuestion = <<>> /\ cAnswer = Return(<<>>) /\ pcCompose = "idle"
    /\ metadata \in MetadataFiles /\ index = {} /\ run = NoRun
    /\ \E r \in Requests :
          call = [pc |-> "start", req |-> r, rag |-> NoCall.rag, resp |-> NoCall.resp]

SpecQuery == InitQuery /\ [][Ask]_vars

\* any sequence of ingestion runs, from before the first one
InitIngest ==
    /\ text = <<>> /\ chunks = <<>> /\ pcChunk = "idle"
    /\ prompt = <<>> /\ llmOut = Return(<<>>) /\ pcLLM = "idle"
    /\ cChunks = <<>> /\ cQuestion = <<>> /\ cAnswer = Return(<<>>) /\ pcCompose = "idle"
    /\ metadata = NoFile /\ index = {} /\ run = NoRun
    /\ call = NoCall

SpecIngest == InitIngest /\ [][Ingest]_vars

Init == InitQuery

Next == Ask

Spec == SpecQuery

---------------------------------------------------------------------------
(* Properties of the chunker (SpecChunk) *)

\* A sentence starts at a character that is not whitespace and has nothing
\* but whitespace before it, or whose preceding character is whitespace and
\* whose nearest preceding non-whitespace character is a terminator.
StartsSentence(t, i) ==
    /\ ~IsSpace(t[i])
    /\ \/ \A j \in 1..(i - 1) : IsSpace(t[j])
       \/ /\ i > 1 /\ IsSpace(t[i - 1])
          /\ \E j \in 1..(i - 1) :
                /\ t[j] \in Terminators
                /\ \A k \in (j + 1)..(i - 1) : IsSpace(t[k])

SentenceCount(t) == Cardinality({i \in 1..Len(t) : StartsSentence(t, i)})

RECURSIVE Flatten(_)
Flatten(ss) == IF ss = <<>> THEN <<>> ELSE Head(ss) \o Flatten(Tail(ss))

\* C2: split_into_chunks returns ceil(s/3) chunks for a text of s non-empty
\* sentences, every chunk holds between 1 and 3 sentences, and the sentences
\* of the chunks, read in order, are the sentences of the text.
C2_ChunksPartitionSentences ==
    pcChunk = "done" =>
        /\ Len(chunks) = (SentenceCount(text) + ChunkSize - 1) \div ChunkSize
        /\ \A i \in 1..Len(chunks) :
              Len(Sentences(chunks[i])) \in 1..ChunkSize
        /\ Flatten([i \in 1..Len(chunks) |-> Sentences(chunks[i])]) = Sentences(text)
        /\ Len(Sentences(text)) = SentenceCount(text)

C2_Witness ==
    /\ pcChunk = "done"
    /\ SentenceCount(text) = ChunkSize + 1
    /\ Len(chunks) = 2
    /\ Len(Sentences(chunks[2])) = 1

---------------------------------------------------------------------------
(* Properties of the generator (SpecLLM) *)

\* C8: placeholder_llm never raises; it returns the fallback string for a
\* prompt that lacks the Context marker or the Question marker, and an
\* answer that starts "Based on the context: " for a prompt that has both.
C8_GeneratorTotal ==
    pcLLM = "done" =>
        /\ llmOut.exc = ""
        /\ IF Contains(prompt, ContextMarker) /\ Contains(prompt, QuestionMarker)
           THEN Head(llmOut.value) = BasedOn
           ELSE llmOut.value = Fallback

C8_Witness ==
    /\ pcLLM = "done"
    /\ Contains(prompt, ContextMarker)
    /\ ~Contains(prompt, QuestionMarker)
    /\ Contains(prompt, <<"Q">>)
    /\ llmOut = Return(Fallback)

---------------------------------------------------------------------------
(* Properties of the composition (SpecCompose) *)

\* the answer that names the first sentence of the assembled context and the
\* trimmed question
RoundTripAnswer(cs, q) ==
    Return(AnswerText(FirstSentence(build_context(cs)), Strip(q)))

\* the first Question marker of the prompt is the template's, and the first
\* Answer marker after it is the template's
MarkersUnambiguous(cs, q) ==
    /\ ~Contains(build_context(cs) \o <<"\n">>, QuestionMarker)
    /\ ~Contains(q, AnswerMarker)

---------------------------------------------------------------------------
(* Properties of a query (SpecQuery) *)

Retrieved == call.rag.retrieved

\* the search answered with status 200
SearchSucceeded ==
    /\ call.pc = "done"
    /\ call.req.model = "ok"
    /\ call.req.transport = "ok"
    /\ call.req.status = 200

IsMsgpack == Contains(call.req.ctype, MsgpackType)

\* the response was decoded into a list of results
Decoded ==
    /\ SearchSucceeded
    /\ IsMsgpack
    /\ call.req.body.decodable
    /\ ResultsOf(call.req.body.payload).iterable

HitList == ResultsOf(call.req.body.payload).items

\* a hit is a (score, id) pair
IsHit(item) == item.list /\ Len(item.elems) = 2

\* the text of the metadata for an id, or the sentinel string
TextOrSentinel(id) ==
    IF /\ metadata.exists
       /\ id \in DOMAIN metadata.entries
       /\ "text" \in metadata.entries[id].fields
    THEN metadata.entries[id].text
    ELSE Sentinel(id)

HitsMapped ==
    /\ Retrieved.out.exc = ""
    /\ Len(Retrieved.out.value) = Len(HitList)
    /\ \A i \in 1..Len(HitList) :
          Retrieved.out.value[i] = TextOrSentinel(HitList[i].elems[2])

C3_AskNeverRaises ==
    call.pc = "done" =>
        /\ call.resp.raised = ""
        /\ call.rag.out.exc # "" =>
              /\ call.resp.keys = {"error", "note"}
              /\ call.resp.error = call.rag.out.value
              /\ call.resp.note = Note
        /\ call.rag.out.exc = "" =>
              /\ call.resp.keys = {"question", "answer"}
              /\ call.resp.question = call.req.question
              /\ call.resp.answer = call.rag.out.value

C3_Witness ==
    /\ call.pc = "done"
    /\ call.rag.out.exc = "IndexError"
    /\ call.resp.keys = {"error", "note"}

\* the search succeeded with zero hits, or its response was not decoded
NoHitsOrUndecoded ==
    /\ SearchSucceeded
    /\ \/ ~IsMsgpack
       \/ ~call.req.body.decodable
       \/ ResultsOf(call.req.body.payload) = ListValue(<<>>)

\* C4 as stated: retrieve_chunks returns an empty list and raises nothing
\* when the search succeeds with zero hits or the response cannot be
\* decoded, whatever the state of the metadata file.
C4_EmptyWhateverTheMetadata ==
    NoHitsOrUndecoded => Retrieved.out = Return(<<>>)

\* C4 amended: retrieve_chunks returns an empty list and raises nothing when
\* the response's content type is not msgpack, whatever the state of the
\* metadata file, and when the decoded response has zero results and the
\* metadata file exists.
C4_EmptyWhenNotMsgpackOrNoResults ==
    ( /\ SearchSucceeded
      /\ \/ ~IsMsgpack
         \/ /\ call.req.body.decodable
            /\ ResultsOf(call.req.body.payload) = ListValue(<<>>)
            /\ metadata.exists )
        => Retrieved.out = Return(<<>>)

C4_Witness ==
    /\ SearchSucceeded
    /\ IsMsgpack
    /\ call.req.body.decodable
    /\ call.req.body.payload = DictPayload({}, NoneValue, NoneValue)
    /\ metadata.exists
    /\ DOMAIN metadata.entries # {}
    /\ Retrieved.out = Return(<<>>)

\* C5: on a status-200 response whose content type is not msgpack,
\* retrieve_chunks returns an empty list, calls neither msgpack.unpackb nor
\* load_metadata, and prints its diagnostic instead of returning it.
C5_NotMsgpackNotDecoded ==
    (SearchSucceeded /\ ~IsMsgpack) =>
        /\ Retrieved.out = Return(<<>>)
        /\ ~Retrieved.decoded
        /\ ~Retrieved.loaded
        /\ Head(Retrieved.printed) = "DEBUG: Non-msgpack response from Endee"

C5_Witness ==
    /\ SearchSucceeded
    /\ call.req.ctype = <<"text/html">>
    /\ call.req.body.decodable
    /\ ~metadata.exists
    /\ Retrieved.out = Return(<<>>)
    /\ Retrieved.printed # <<>>

\* C7: when retrieval yields an empty list run_rag returns the fixed message
\* and hands no prompt to placeholder_llm; every prompt it hands to
\* placeholder_llm is built from a non-empty chunk list.
C7_NoGenerationOnEmptyContext ==
    call.pc = "done" =>
        /\ Retrieved.out = Return(<<>>) =>
              /\ call.rag.out = Return(NoContext)
              /\ call.rag.prompts = <<>>
        /\ \A i \in 1..Len(call.rag.prompts) :
              /\ Retrieved.out.exc = ""
              /\ Retrieved.out.value # <<>>
              /\ call.rag.prompts[i] =
                    build_prompt(build_context(Retrieved.out.value), call.req.question)

C7_Witness ==
    /\ Decoded
    /\ Retrieved.decoded
    /\ Retrieved.out = Return(<<>>)
    /\ call.rag.out = Return(NoContext)
    /\ call.resp.answer = NoContext

---------------------------------------------------------------------------
(* Properties of ingestion (SpecIngest) *)

MetadataIds == IF metadata.exists THEN DOMAIN metadata.entries ELSE {}

\* C6: after any sequence of ingestion runs the chunk ids of the persisted
\* metadata are the chunk ids held as keys by the vector index.
C6_MetadataIdsAreIndexKeys == MetadataIds = index

Blank(doc) == ~doc.exists \/ Strip(doc.text) = <<>>

\* C9: an ingestion run on a missing, empty or whitespace-only document
\* prints a message, writes no metadata, leaves the metadata and the index as
\* they were and posts no insert; no run writes metadata or posts an insert
\* for an empty chunk sequence.
C9_BlankDocumentChangesNothing ==
    [][ /\ Blank(run'.doc) =>
              /\ metadata' = metadata
              /\ index' = index
              /\ ~run'.wrote
              /\ run'.posted = <<>>
              /\ run'.printed \in {"Missing file", "sample_docs.txt is empty"}
        /\ (run'.wrote \/ run'.posted # <<>>) => run'.chunks # <<>>
      ]_storeVars

C9_Witness ==
    /\ metadata.exists
    /\ index # {}
    /\ run.doc.exists
    /\ Blank(run.doc)
    /\ run.printed = "sample_docs.txt is empty"

=============================================================================
